---- MODULE Spec2Model ----
(***************************************************************************)
(* The search -> download -> clip -> embed pipeline of the miner:          *)
(*   omega/video_utils.py  search_videos, download_video, clip_video,      *)
(*                         get_video_duration, skip_live, is_valid_id      *)
(*   omega/miner_utils.py  download_video, process_video,                  *)
(*                         get_relevant_timestamps, search_and_embed_videos*)
(* One behaviour is one call of search_and_embed_videos(query, num_videos, *)
(* imagebind).  The search provider, the transport, ffmpeg and the         *)
(* embedding model are external: each of their answers is drawn from a     *)
(* small set when the call is made.                                        *)
(***************************************************************************)
EXTENDS Integers, Sequences, FiniteSets

(* ------------------------------ bounds -------------------------------- *)
\* largest num_videos a caller asks for
MaxNumVideos == 2
\* number of distinct video ids the provider knows
NumIds == 4
\* longest batch of raw entries one search attempt returns
MaxBatch == 2
\* worker threads of the download pool: ThreadPoolExecutor() takes
\* min(32, os.cpu_count() + 4), a property of the host
MaxWorkers == 2

(* ------------------------- program constants -------------------------- *)
\* omega.constants.MAX_VIDEO_LENGTH, imported at miner_utils.py:9: the longest
\* clip, in seconds
MAX_VIDEO_LENGTH == 120
\* omega.constants.FIVE_MINUTES, imported at miner_utils.py:9 and
\* video_utils.py:10, in seconds
FIVE_MINUTES == 300
\* range(3) search attempts, video_utils.py:106
NumAttempts == 3
\* len(youtube_id) == 11, video_utils.py:136
ValidIdLen == 11

\* The videos of the provider.  Video 1 has a malformed id (and may already
\* be in the dataset), video 2 is a live broadcast, videos 3 and 4 are plain,
\* any further video is a live broadcast.
Ids == 1..NumIds
\* ids whose string length is not 11
short_ids == {1}
\* ids the provider reports as live broadcasts (is_live)
live_ids == {2} \cup {v \in Ids : v > 4}
Attempts == 1..NumAttempts

\* The duration ffprobe reports for the downloaded file of video v, in tenths
\* of a second (the 'duration' string of the video stream is a decimal number
\* of seconds): 0.7 s for the odd videos, 300.5 s for the even ones.
ProbedTenths(v) == IF v % 2 = 1 THEN 7 ELSE 10 * FIVE_MINUTES + 5

\* Exceptions a download task or process_video can raise.
\*   IPBlockedException, FakeVideoException : video_utils.py:125-132
\*   TypeError   : unpacking the None a download task returned (line 108)
\*   FfmpegError : ffmpeg.probe / ffmpeg run failed
\*   EmbedError  : imagebind.embed failed
ExceptionKinds ==
    {"IPBlockedException", "FakeVideoException", "TypeError", "FfmpegError", "EmbedError"}

VARIABLES
    num_videos,      \* argument of search_and_embed_videos
    existing_ids,    \* module global of video_utils: ids already in the dataset
    attempts,        \* the 3 search futures: state and result
    filtered_videos, \* search_videos: the merged candidate list
    results,         \* search_and_embed_videos: list returned by search_videos
    tasks,           \* download_tasks: one future per candidate, with its handles
    video_metas,     \* the list being returned
    pc,              \* position of the coordinator thread
    cur,             \* index of the candidate inside process_video, 0 if none
    exc,             \* exception propagating out of the coordinator loop
    invocations,     \* number of calls of miner_utils.download_video so far
    dl_call          \* a call of video_utils.download_video taken on its own:
                     \* its video, the transport's answer, and its outcome

vars == <<num_videos, existing_ids, attempts, filtered_videos,
          results, tasks, video_metas, pc, cur, exc, invocations, dl_call>>

(* ------------------------------ helpers ------------------------------- *)
Min(a, b) == IF a <= b THEN a ELSE b

\* s[:n]
Prefix(s, n) == SubSeq(s, 1, Min(Len(s), n))

\* the increasing sequences over 1..n of length at most k
RECURSIVE IncSeqs(_, _)
IncSeqs(n, k) ==
    IF n = 0 \/ k = 0 THEN {<<>>}
    ELSE IncSeqs(n - 1, k) \cup {Append(t, n) : t \in IncSeqs(n - 1, k - 1)}

\* the raw batches one search attempt can get from the provider: at most
\* MaxBatch entries, in the provider's ranking (by id)
Batches == IncSeqs(NumIds, MaxBatch)

\* int(num_videos * 1.5), miner_utils.py:100
MaxResults(n) == (3 * n) \div 2

(* --------------------------- video_utils ------------------------------ *)
\* a match_filter that lets every video through
skip_live_never(is_live) == FALSE

\* skip_live(info_dict): a message (skip) when info_dict.get("is_live") is truthy
skip_live(is_live) == is_live

\* len(video_id)
IdLen(v) == IF v \in short_ids THEN ValidIdLen - 1 ELSE ValidIdLen

is_valid_id(v) == IdLen(v) = ValidIdLen

\* get_video_duration: int(float(video_stream['duration']))
get_video_duration(tenths) == tenths \div 10

\* a filter that keeps every entry
NotExistingUnfiltered(v) == TRUE

\* the list comprehension of search(): video.video_id not in existing_ids
NotExisting(v) == v \notin existing_ids

\* the provider's 'duration' field of a flat entry; 0 stands for a missing
\* field (entry.get("duration") is falsy in both cases)
EntryDuration(v) == IF v = 1 THEN 0 ELSE 60 * v

\* YoutubeResult(video_id=entry["id"], ..., length=...), line 89-95
YoutubeResult(v) ==
    [video_id |-> v,
     length |-> IF EntryDuration(v) # 0 THEN EntryDuration(v) ELSE FIVE_MINUTES]

\* search(query), lines 69-103, for one answer of the provider.
\*   failed    : extract_info raised; the except clause returns []
\*   batch     : the raw entries found
\*   flagged   : whether the flat entries carry the is_live field; entries the
\*               match_filter rejects are not part of result["entries"]
\* The value is [none |-> TRUE] for the implicit None of an empty result;
\* dropped counts the entries the existing_ids filter removed, failed tells
\* that the value is the [] of the except clause.
search(failed, batch, flagged) ==
    LET Passes(v) == ~skip_live(flagged /\ v \in live_ids)
        entries == SelectSeq(batch, Passes)
    IN  IF failed THEN [none |-> FALSE, vids |-> <<>>, dropped |-> 0, failed |-> TRUE]
        ELSE IF entries = <<>>
        THEN [none |-> TRUE, vids |-> <<>>, dropped |-> 0, failed |-> FALSE]
        ELSE LET videos == [i \in 1..Len(entries) |-> YoutubeResult(entries[i])]
                 New(video) == NotExisting(video.video_id)
                 new_videos == SelectSeq(videos, New)
             IN  [none |-> FALSE, vids |-> new_videos,
                  dropped |-> Len(videos) - Len(new_videos), failed |-> FALSE]

IdleAttempts ==
    [a \in Attempts |->
        [st |-> "idle", none |-> FALSE, vids |-> <<>>, dropped |-> 0, failed |-> FALSE]]

\* executor.submit(download_video, result) for result in results, line 105
Submit(cands) ==
    [i \in 1..Len(cands) |->
        [st |-> "Queued", res |-> "pending", video_id |-> cands[i].video_id,
         length |-> cands[i].length, handle |-> "none", clip |-> "none",
         seen |-> FALSE, proc |-> "no"]]

\* no call of video_utils.download_video is looked at on its own
NoCall ==
    [video_id |-> 0, transport |-> [kind |-> "data", msg |-> {}],
     out |-> [res |-> "idle", handle |-> "none"]]

(* ------------------------------- Init --------------------------------- *)
Init ==
    /\ num_videos \in 0..MaxNumVideos
    /\ existing_ids \in {{}, {1}}
    /\ attempts = IdleAttempts
    /\ filtered_videos = <<>>
    /\ results = <<>>
    /\ tasks = <<>>
    /\ video_metas = <<>>
    /\ pc = "start"
    /\ cur = 0
    /\ exc = "none"
    /\ invocations = 0
    /\ dl_call = NoCall

(* --------------------------- search_videos ---------------------------- *)
\* a loop that waits for a further task whatever has been handed over
LoopOrExitWaits(ts) == "loop"

\* the body of the download loop is entered only if there is a task to wait for
LoopOrExit(ts) == IF \A i \in 1..Len(ts) : ts[i].seen THEN "exit" ELSE "loop"

\* search_videos up to the submission of the attempts, lines 62-67 and 105-106;
\* with max_results = 0 the early return of line 67 gives the empty list
SearchBegin ==
    /\ pc = "start"
    /\ IF Len(filtered_videos) >= MaxResults(num_videos)
       THEN /\ results' = Prefix(filtered_videos, MaxResults(num_videos))
            /\ tasks' = Submit(results')
            /\ pc' = LoopOrExit(tasks')
            /\ UNCHANGED attempts
       ELSE /\ attempts' = [a \in Attempts |-> [attempts[a] EXCEPT !.st = "running"]]
            /\ pc' = "search"
            /\ UNCHANGED <<results, tasks>>
    /\ UNCHANGED <<dl_call, num_videos, existing_ids, filtered_videos,
                   video_metas, cur, exc, invocations>>

\* one search attempt runs to its end in a pool thread.  The three futures
\* are the members of a set of identical calls: they are numbered in the
\* order in which they finish.
SearchAttempt(a) ==
    /\ attempts[a].st = "running"
    /\ \A b \in 1..(a - 1) : attempts[b].st # "running"
    /\ \E r \in {search(failed, batch, flagged) :
                      failed \in BOOLEAN, batch \in Batches, flagged \in BOOLEAN} :
          attempts' = [attempts EXCEPT ![a] = [st |-> "done", none |-> r.none,
                                              vids |-> r.vids, dropped |-> r.dropped,
                                              failed |-> r.failed]]
    /\ UNCHANGED <<dl_call, num_videos, existing_ids, filtered_videos,
                   results, tasks, video_metas, pc, cur, exc, invocations>>

\* the condition of the break at line 112
SearchBreak(fv, n) == Len(fv) >= n

\* one iteration of the as_completed loop of search_videos, lines 108-113
SearchMerge(a) ==
    /\ pc = "search"
    /\ attempts[a].st = "done"
    /\ LET new_videos == attempts[a].vids
           truthy == ~attempts[a].none /\ new_videos # <<>>
           fv == IF truthy THEN filtered_videos \o new_videos ELSE filtered_videos
           att == [attempts EXCEPT ![a] = [st |-> "yielded", none |-> FALSE,
                                           vids |-> <<>>, dropped |-> 0,
                                           failed |-> FALSE]]
       IN  /\ filtered_videos' = fv
           /\ attempts' = att
           /\ pc' = IF (truthy /\ SearchBreak(fv, num_videos))
                       \/ (\A b \in Attempts : att[b].st = "yielded")
                    THEN "search_exit" ELSE "search"
    /\ UNCHANGED <<dl_call, num_videos, existing_ids, results, tasks,
                   video_metas, cur, exc, invocations>>

\* the end of the with block (shutdown waits for every attempt), the return of
\* line 115, and the submission of the download tasks, miner_utils.py:100-105
SearchReturn ==
    /\ pc = "search_exit"
    /\ \A a \in Attempts : attempts[a].st \in {"done", "yielded"}
    /\ results' = Prefix(filtered_videos, MaxResults(num_videos))
    /\ tasks' = Submit(results')
    /\ pc' = LoopOrExit(tasks')
    /\ attempts' = IdleAttempts
    /\ filtered_videos' = <<>>
    /\ UNCHANGED <<dl_call, num_videos, existing_ids, video_metas, cur,
                   exc, invocations>>

(* ------------------------- the download tasks ------------------------- *)
\* phrases of a transport error message that download_video looks for
BlockedPhrases ==
    {"Your IP is likely being blocked by Youtube", "Requested format is not available"}
FakePhrases == {"Video unavailable", "is not a valid URL", "Incomplete YouTube ID"}
Messages == SUBSET (BlockedPhrases \cup FakePhrases)

\* an except clause that looks for the phrases of a fake video first
ClassifyErrorFakeFirst(msg) ==
    IF msg \cap FakePhrases # {} THEN "FakeVideoException"
    ELSE IF msg \cap BlockedPhrases # {} THEN "IPBlockedException"
    ELSE "None"

\* the except clause of video_utils.download_video, lines 177-187: the result
\* of the task for an error whose message holds the phrases msg
ClassifyError(msg) ==
    IF msg \cap BlockedPhrases # {} THEN "IPBlockedException"
    ELSE IF msg \cap FakePhrases # {} THEN "FakeVideoException"
    ELSE "None"

\* what the transport does for one download
TransportOutcomes ==
    {[kind |-> "data", msg |-> {}], [kind |-> "empty", msg |-> {}]}
        \cup {[kind |-> "error", msg |-> m] : m \in Messages}

\* what ffmpeg.probe answers for the file of video v: an error (-1), or its
\* duration in tenths of a second
ProbeOutcomes(v) == {-1, ProbedTenths(v)}

\* video_utils.download_video, lines 139-187: [res, handle] for the video v.
\* A video the match_filter skips is not an error: nothing is written and the
\* file stays empty.
vu_download_video(v, t) ==
    IF ~is_valid_id(v) THEN [res |-> "FakeVideoException", handle |-> "none"]
    ELSE IF t.kind = "error" THEN [res |-> ClassifyError(t.msg), handle |-> "closed"]
    ELSE IF skip_live(v \in live_ids) \/ t.kind = "empty"
         THEN [res |-> "None", handle |-> "closed"]
    ELSE [res |-> "ok", handle |-> "open"]

\* miner_utils.download_video, lines 49-59: the task's fields after the call.
\* The probe runs only on a download_path; an error of the probe leaves the
\* function with the handle still open.
download_video(task, t, p) ==
    LET d == vu_download_video(task.video_id, t)
    IN  IF d.res # "ok"
        THEN [task EXCEPT !.st = "Finished", !.res = d.res, !.handle = d.handle]
        ELSE IF p = -1
        THEN [task EXCEPT !.st = "Finished", !.res = "FfmpegError", !.handle = d.handle]
        ELSE [task EXCEPT !.st = "Finished", !.res = "ok", !.handle = d.handle,
                          !.length = get_video_duration(p)]

Running == {i \in 1..Len(tasks) : tasks[i].st = "Running"}

\* a pool thread takes the next work item: the work queue is first-in
\* first-out and the pool has MaxWorkers threads
StartDownload(i) ==
    /\ i \in 1..Len(tasks)
    /\ tasks[i].st = "Queued"
    /\ \A j \in 1..(i - 1) : tasks[j].st # "Queued"
    /\ Cardinality(Running) < MaxWorkers
    /\ tasks' = [tasks EXCEPT ![i].st = "Running"]
    /\ invocations' = invocations + 1
    /\ UNCHANGED <<dl_call, num_videos, existing_ids, attempts,
                   filtered_videos, results, video_metas, pc, cur, exc>>

\* the download task of candidate i runs to its end
FinishDownload(i) ==
    /\ i \in 1..Len(tasks)
    /\ tasks[i].st = "Running"
    /\ \E done \in {download_video(tasks[i], t, p) :
                         t \in TransportOutcomes, p \in ProbeOutcomes(tasks[i].video_id)} :
          tasks' = [tasks EXCEPT ![i] = done]
    /\ UNCHANGED <<dl_call, num_videos, existing_ids, attempts,
                   filtered_videos, results, video_metas, pc, cur, exc, invocations>>

(* -------------------------- the coordinator --------------------------- *)
\* get_relevant_timestamps, lines 37-47
get_relevant_timestamps(length) == <<0, Min(length, MAX_VIDEO_LENGTH)>>

\* the VideoMetadata of process_video, lines 73-82; task is the index of the
\* candidate in results, kept to relate a record to its candidate
VideoMetadata(i, task) ==
    [task |-> i, video_id |-> task.video_id,
     start_time |-> get_relevant_timestamps(task.length)[1],
     end_time |-> get_relevant_timestamps(task.length)[2]]

\* a coordinator that reads no task's exception
ResultRaisesNever(task) == "none"

\* what task.result() does in the coordinator, line 108: the exception it
\* raises, or "none"
ResultRaises(task) ==
    IF task.res = "ok" THEN "none"
    ELSE IF task.res = "None" THEN "TypeError"
    ELSE task.res

\* a handler inside the loop body: the loop goes on with the next task
OnExceptionContinue(ts) == LoopOrExit(ts)

\* where an exception raised in the loop body takes the coordinator: the try
\* of line 102 encloses the with block and the whole loop, so the loop is left
OnException(ts) == "exit"

\* a coordinator that hands process_video to another thread and goes on
\* taking finished tasks
CoordinatorWaitsAlso(p) == p \in {"loop", "clip", "embed"}

\* the coordinator is at the head of its for loop, line 107: process_video is
\* called in the loop body, line 109, in the coordinator's own thread
CoordinatorWaits(p) == p = "loop"

\* as_completed hands over a finished task; line 108
Take(i) ==
    /\ CoordinatorWaits(pc)
    /\ i \in 1..Len(tasks)
    /\ tasks[i].st = "Finished"
    /\ ~tasks[i].seen
    /\ IF ResultRaises(tasks[i]) # "none"
       THEN /\ tasks' = [tasks EXCEPT ![i].seen = TRUE]
            /\ exc' = ResultRaises(tasks[i])
            /\ pc' = OnException(tasks')
            /\ cur' = cur
       ELSE /\ exc' = exc
            /\ pc' = "clip"
            /\ cur' = i
            /\ tasks' = [tasks EXCEPT ![i].seen = TRUE, ![i].proc = "clip"]
    /\ UNCHANGED <<dl_call, num_videos, existing_ids, attempts,
                   filtered_videos, results, video_metas, invocations>>

\* process_video up to clip_video, lines 62-69.  clip_video opens its
\* temporary file before ffmpeg runs and has no handler around the run; on an
\* error clip_path is still None in process_video, whose finally clause then
\* closes the download handle only.
Clip ==
    /\ pc = "clip"
    /\ \E ok \in BOOLEAN :
          IF ok
          THEN /\ tasks' = [tasks EXCEPT ![cur].clip = "open", ![cur].proc = "embed"]
               /\ pc' = "embed"
               /\ UNCHANGED <<cur, exc>>
          ELSE /\ tasks' = [tasks EXCEPT ![cur].clip = "open", ![cur].proc = "failed",
                                         ![cur].handle = "closed"]
               /\ exc' = "FfmpegError"
               /\ pc' = OnException(tasks')
               /\ cur' = 0
    /\ UNCHANGED <<dl_call, num_videos, existing_ids, attempts,
                   filtered_videos, results, video_metas, invocations>>

\* a break one record too late
QuotaReachedOffByOne(metas, n) == Len(metas) = n + 1

\* a loop without the break
QuotaReachedNever(metas, n) == FALSE

\* the condition of the break at line 112
QuotaReached(metas, n) == Len(metas) = n

\* a process_video that swallows the error of the embedding
ReturnsRecordAlways(ok) == TRUE

\* whether process_video hands a record to the coordinator when the
\* embedding ended with ok
ReturnsRecord(ok) == ok

\* a list that takes each new record at its head
PrependRecord(metas, meta) == <<meta>> \o metas

\* video_metas.append(video_meta), line 111
AppendRecord(metas, meta) == Append(metas, meta)

\* process_video from imagebind.embed on, lines 71-86, and the rest of the
\* loop body, lines 110-113
Embed ==
    /\ pc = "embed"
    /\ \E ok \in BOOLEAN :
          LET closed == [tasks EXCEPT ![cur].handle = "closed", ![cur].clip = "closed",
                                      ![cur].proc = IF ok THEN "done" ELSE "failed"]
              metas == AppendRecord(video_metas, VideoMetadata(cur, tasks[cur]))
          IN  /\ tasks' = closed
              /\ cur' = 0
              /\ IF ReturnsRecord(ok)
                 THEN /\ video_metas' = metas
                      /\ exc' = exc
                      /\ pc' = IF QuotaReached(metas, num_videos) THEN "exit"
                               ELSE LoopOrExit(closed)
                 ELSE /\ video_metas' = video_metas
                      /\ exc' = "EmbedError"
                      /\ pc' = OnException(closed)
    /\ UNCHANGED <<dl_call, num_videos, existing_ids, attempts,
                   filtered_videos, results, invocations>>

\* a handler for the two exception classes of video_utils only
CaughtByExceptDeclaredOnly(kind) == kind \in {"IPBlockedException", "FakeVideoException"}

\* except Exception, line 115: the kinds the handler catches.  The two
\* exception classes of video_utils derive from Exception, as do TypeError and
\* the errors of ffmpeg and of the embedding model.
CaughtByExcept(kind) == kind \in ExceptionKinds

\* the end of the with block, which waits for every submitted task
\* (shutdown(wait=True) cancels nothing), then lines 115-118
Exit ==
    /\ pc = "exit"
    /\ \A i \in 1..Len(tasks) : tasks[i].st = "Finished"
    /\ pc' = IF exc = "none" \/ CaughtByExcept(exc) THEN "returned" ELSE "raised"
    /\ UNCHANGED <<dl_call, num_videos, existing_ids, attempts,
                   filtered_videos, results, tasks, video_metas, cur, exc, invocations>>

(* ---------------------------- specification --------------------------- *)
Next ==
    \/ SearchBegin
    \/ \E a \in Attempts : SearchAttempt(a)
    \/ \E a \in Attempts : SearchMerge(a)
    \/ SearchReturn
    \/ \E i \in 1..MaxResults(MaxNumVideos) : StartDownload(i)
    \/ \E i \in 1..MaxResults(MaxNumVideos) : FinishDownload(i)
    \/ \E i \in 1..MaxResults(MaxNumVideos) : Take(i)
    \/ Clip
    \/ Embed
    \/ Exit

Spec == Init /\ [][Next]_vars

\* video_utils.download_video as a function of its argument and of the
\* transport's answer: every video and every answer, one call each.
DownloadInit ==
    /\ dl_call \in [video_id : Ids, transport : TransportOutcomes,
                    out : {[res |-> "pending", handle |-> "none"]}]
    /\ num_videos = 0
    /\ existing_ids = {}
    /\ attempts = IdleAttempts
    /\ filtered_videos = <<>>
    /\ results = <<>>
    /\ tasks = <<>>
    /\ video_metas = <<>>
    /\ pc = "start"
    /\ cur = 0
    /\ exc = "none"
    /\ invocations = 0

DownloadCall ==
    /\ dl_call.out.res = "pending"
    /\ dl_call' = [dl_call EXCEPT
                       !.out = vu_download_video(dl_call.video_id, dl_call.transport)]
    /\ UNCHANGED <<num_videos, existing_ids, attempts, filtered_videos,
                   results, tasks, video_metas, pc, cur, exc, invocations>>

DownloadNext == DownloadCall

DownloadSpec == DownloadInit /\ [][DownloadNext]_vars

\* The threads of both pools and the coordinator are scheduled, and every
\* call of the provider, the transport, ffmpeg and the embedding model ends:
\* a step that stays possible is eventually taken.
FairSpec == Spec /\ WF_vars(Next)

(* ------------------------------ claims -------------------------------- *)
Returned == pc = "returned"

TaskIds == 1..Len(tasks)

\* the candidates whose download task ended with a file and a probed length
Downloaded == {i \in TaskIds : tasks[i].st = "Finished" /\ tasks[i].res = "ok"}

\* the candidates that failed in some stage
FailedCands ==
    {i \in TaskIds : (tasks[i].st = "Finished" /\ tasks[i].res # "ok") \/ tasks[i].proc = "failed"}

\* C1: the list search_and_embed_videos builds never holds more than
\* num_videos records, whatever the completion order and the failures.
C1_AtMostNumVideos == Len(video_metas) <= num_videos

\* C1 witness: the call returned a full list although a further candidate
\* had been downloaded and another had failed.
C1_Witness ==
    /\ Returned
    /\ num_videos >= 1
    /\ Len(video_metas) = num_videos
    /\ Len(tasks) > num_videos

\* every candidate downloaded, clipped and embedded without an error
AllSucceeded == exc = "none" /\ \A i \in TaskIds : tasks[i].res = "ok"

\* C2: with at least num_videos candidates, all of them successful, the call
\* returns exactly num_videos records, and download_video is never invoked
\* more often than there are candidates.
C2_ExactQuotaWhenAllSucceed ==
    /\ invocations <= Len(results)
    /\ (Returned /\ Len(results) >= num_videos /\ AllSucceeded)
          => Len(video_metas) = num_videos

\* C2 witness: more candidates than asked for, all successful, all invoked.
C2_Witness ==
    /\ Returned
    /\ AllSucceeded
    /\ num_videos >= 1
    /\ Len(results) > num_videos
    /\ Len(video_metas) = num_videos
    /\ invocations = Len(results)

\* the candidates that can still become a record: downloaded and probed, and
\* not failed in clip or embed
CanSucceed == {i \in Downloaded : tasks[i].proc # "failed"}

\* C3: when fewer than num_videos candidates can succeed, the call returns one
\* record for each of them: a failed candidate never keeps a successful one
\* from being accepted.
C3_FailureNeverBlocksSuccess ==
    (Returned /\ Cardinality(CanSucceed) < num_videos)
        => Len(video_metas) = Cardinality(CanSucceed)

\* C4: after the call no temporary handle, of a download or of a clip, is
\* still open.
C4_NoHandleOpenAfterReturn ==
    pc \in {"returned", "raised"}
        => \A i \in TaskIds : tasks[i].handle # "open" /\ tasks[i].clip # "open"

\* C5: no failure of a candidate leaves search_and_embed_videos as an
\* exception; the call ends by returning its list.
C5_NoFailurePropagates == pc # "raised"

\* C5 witness: the call returned after a candidate's failure reached the
\* except clause.
C5_Witness == Returned /\ exc # "none" /\ FailedCands # {}

\* C6: no id of existing_ids is the id of a candidate search_videos merged or
\* returned, of a download task, or of a record.
C6_NoKnownId ==
    /\ \A i \in 1..Len(filtered_videos) : filtered_videos[i].video_id \notin existing_ids
    /\ \A a \in Attempts : \A i \in 1..Len(attempts[a].vids) :
          attempts[a].vids[i].video_id \notin existing_ids
    /\ \A i \in 1..Len(results) : results[i].video_id \notin existing_ids
    /\ \A i \in TaskIds : tasks[i].video_id \notin existing_ids
    /\ \A i \in 1..Len(video_metas) : video_metas[i].video_id \notin existing_ids

\* C6 witness: a search attempt got a batch with a known id and a new one;
\* the known one was dropped and the new one kept.
C6_Witness ==
    \E a \in Attempts :
        /\ attempts[a].st = "done"
        /\ attempts[a].dropped > 0
        /\ attempts[a].vids # <<>>

\* C7: no record carries the id of a video the provider reports as live.
C7_NoLiveRecord ==
    \A i \in 1..Len(video_metas) : video_metas[i].video_id \notin live_ids

\* C7 witness: a live video passed the search stage, its download task ended
\* without a file, and the call still returned a record of another video.
C7_Witness ==
    /\ Returned
    /\ video_metas # <<>>
    /\ \E i \in TaskIds : tasks[i].video_id \in live_ids /\ tasks[i].res = "None"

\* C8: every record has 0 <= start_time < end_time <=
\* min(measured length, MAX_VIDEO_LENGTH), the measured length being the
\* probed duration of the candidate's file.
C8_ClipWindow ==
    \A k \in 1..Len(video_metas) :
        LET r == video_metas[k]
        IN  /\ 0 <= r.start_time
            /\ r.start_time < r.end_time
            /\ r.end_time <= Min(tasks[r.task].length, MAX_VIDEO_LENGTH)

\* C9: a record exists only for a candidate that passed the existing_ids
\* filter and whose download, probe, clip and embedding all ended well; each
\* such candidate has one record, and no other candidate has any.
C9_RecordOnlyForCompleted ==
    /\ \A k \in 1..Len(video_metas) :
          LET i == video_metas[k].task
          IN  /\ i \in TaskIds
              /\ tasks[i].video_id \notin existing_ids
              /\ tasks[i].st = "Finished"
              /\ tasks[i].res = "ok"
              /\ tasks[i].seen
              /\ tasks[i].proc = "done"
              /\ video_metas[k].video_id = tasks[i].video_id
    /\ \A k, l \in 1..Len(video_metas) :
          video_metas[k].task = video_metas[l].task => k = l

\* C9 witness: the call returned a record and another candidate failed in
\* clip or embed.
C9_Witness ==
    /\ Returned
    /\ video_metas # <<>>
    /\ \E i \in TaskIds : tasks[i].proc = "failed"

\* C10: once num_videos candidates are Done, no download task that has not
\* begun executing begins afterwards.
C10_NoStartAfterQuota ==
    [][(tasks # <<>> /\ Len(video_metas) = num_videos)
          => \A i \in TaskIds : tasks[i].st = "Queued" => tasks'[i].st = "Queued"]_vars

\* the record count asked for has been reached
QuotaMet == tasks # <<>> /\ Len(video_metas) = num_videos

\* C11: once num_videos candidates are Done and the coordinator has left its
\* loop, search_and_embed_videos can return at once although the download of
\* another candidate is still in progress (no download is waiting to start).
C11_ReturnWithoutWaiting ==
    (pc = "exit" /\ QuotaMet /\ \A i \in TaskIds : tasks[i].st # "Queued")
        => ENABLED Exit

\* C12: the list search_videos returns holds no video id twice, whatever the
\* batches of the three attempts.
C12_NoDuplicateCandidates ==
    \A i, j \in 1..Len(results) :
        results[i].video_id = results[j].video_id => i = j

\* every search attempt has run to its end
AttemptsCompleted == \A a \in Attempts : attempts[a].st \in {"done", "yielded"}

\* the ids of the candidates merged so far
MergedIds == {filtered_videos[i].video_id : i \in 1..Len(filtered_videos)}

\* C13: a failed search attempt contributes no candidate and costs the other
\* attempts nothing: when search_videos is about to return after a failure,
\* the merged list holds max_results candidates or it holds every video that
\* an attempt that succeeded has found.
C13_FailedAttemptCostsNothing ==
    /\ \A a \in Attempts : attempts[a].failed => attempts[a].vids = <<>>
    /\ (pc = "search_exit" /\ AttemptsCompleted /\ \E a \in Attempts : attempts[a].failed)
          => \/ Len(filtered_videos) >= MaxResults(num_videos)
             \/ \A a \in Attempts : \A i \in 1..Len(attempts[a].vids) :
                   attempts[a].vids[i].video_id \in MergedIds

\* C18: the loop of search_videos over the attempts ends only with
\* max_results candidates merged or with all three attempts completed.
C18_StopsOnlyAtMaxResults ==
    [][(pc = "search" /\ pc' = "search_exit")
          => \/ Len(filtered_videos') >= MaxResults(num_videos)
             \/ \A a \in Attempts : attempts'[a].st \in {"done", "yielded"}]_vars

\* C15: a download task that ends without handing a file to the coordinator
\* (transport error of any kind, zero-byte file, failed duration probe) leaves
\* no download handle open.
C15_DownloadStageReleasesHandle ==
    \A i \in TaskIds :
        (tasks[i].st = "Finished" /\ tasks[i].res # "ok") => tasks[i].handle # "open"

\* C16: after a failure of clip or embed the candidate's clip handle is not
\* open; in particular a failed transcode leaves none behind.
C16_ClipHandleClosedOnFailure ==
    \A i \in TaskIds : tasks[i].proc = "failed" => tasks[i].clip # "open"

\* C17: when the coordinator is handed a task whose download returned None
\* (zero-byte file), the candidate yields no record and the loop goes on with
\* the candidates not yet handed over.
C17_EmptyDownloadOnlyFailsItself ==
    [][\A i \in TaskIds :
          (pc = "loop" /\ tasks[i].res = "None" /\ ~tasks[i].seen /\ tasks'[i].seen)
              => /\ video_metas' = video_metas
                 /\ pc' = LoopOrExit(tasks')]_vars

\* the stage of a candidate, from the state of its download task and of
\* process_video; a downloaded candidate stays in Downloading until the
\* coordinator takes it
StageOf(task) ==
    IF task.proc = "clip" THEN "Clipping"
    ELSE IF task.proc = "embed" THEN "Embedding"
    ELSE IF task.proc = "done" THEN "Done"
    ELSE IF task.proc = "failed" THEN "Failed"
    ELSE IF task.st = "Queued" THEN "Queued"
    ELSE IF task.st = "Finished" /\ task.res # "ok" THEN "Failed"
    ELSE "Downloading"

\* the moves of a candidate between stages
Forward ==
    {<<"Queued", "Downloading">>, <<"Downloading", "Clipping">>,
     <<"Clipping", "Embedding">>, <<"Embedding", "Done">>,
     <<"Downloading", "Failed">>, <<"Clipping", "Failed">>, <<"Embedding", "Failed">>}

\* C19: a candidate changes stage only along Queued -> Downloading ->
\* Clipping -> Embedding -> Done or from Downloading, Clipping or Embedding to
\* Failed; it never leaves Done or Failed and enters no stage twice.
C19_StagesOnlyForward ==
    [][\A i \in TaskIds :
          \/ StageOf(tasks'[i]) = StageOf(tasks[i])
          \/ <<StageOf(tasks[i]), StageOf(tasks'[i])>> \in Forward]_vars

\* C19 witness: the call returned with one candidate Done, one failed in its
\* download task and handed over after it.
C19_Witness ==
    /\ Returned
    /\ \E i \in TaskIds : StageOf(tasks[i]) = "Done"
    /\ \E j \in TaskIds : tasks[j].res \notin {"ok", "pending"} /\ tasks[j].seen

\* the search is over and every candidate is Done or Failed
AllConsumed ==
    /\ pc \notin {"start", "search", "search_exit"}
    /\ \A i \in TaskIds : StageOf(tasks[i]) \in {"Done", "Failed"}

\* C20: when every candidate is Done or Failed and fewer than num_videos are
\* Done, the call eventually returns, with a record of every Done candidate.
C20_ReturnsWhenExhausted ==
    (AllConsumed /\ Len(video_metas) < num_videos)
        ~> (/\ Returned
            /\ \A i \in TaskIds : StageOf(tasks[i]) = "Done"
                  => \E k \in 1..Len(video_metas) : video_metas[k].task = i)

\* C20 witness: the call returned fewer records than asked for, at least one,
\* with every candidate Done or Failed.
C20_Witness ==
    /\ Returned
    /\ AllConsumed
    /\ video_metas # <<>>
    /\ Len(video_metas) < num_videos
    /\ Len(tasks) > Len(video_metas)

\* C14: video_utils.download_video raises FakeVideoException for an id whose
\* length is not 11; for a valid id it raises IPBlockedException for a
\* transport error that reports a block and FakeVideoException for one that
\* reports an invalid, incomplete or unavailable video (and no block).  It
\* raises each kind for its own condition only, so no error surfaces as both.
C14_TwoDistinctErrorKinds ==
    LET v == dl_call.video_id
        t == dl_call.transport
        res == dl_call.out.res
        blocked == IdLen(v) = ValidIdLen /\ t.kind = "error" /\ t.msg \cap BlockedPhrases # {}
        fake == \/ IdLen(v) # ValidIdLen
                \/ t.kind = "error" /\ t.msg \cap FakePhrases # {} /\ t.msg \cap BlockedPhrases = {}
    IN  res \notin {"idle", "pending"}
            => /\ blocked <=> res = "IPBlockedException"
               /\ fake <=> res = "FakeVideoException"

\* C14 witness: an error whose message reports both a block and an unavailable
\* video was surfaced as IPBlockedException.
C14_Witness ==
    /\ dl_call.out.res = "IPBlockedException"
    /\ dl_call.transport.msg \cap FakePhrases # {}
    /\ dl_call.transport.msg \cap BlockedPhrases # {}

\* the candidates that reach Done in the step
BecomeDone ==
    {i \in TaskIds : StageOf(tasks[i]) # "Done" /\ StageOf(tasks'[i]) = "Done"}

\* C21: the records are in the order in which their candidates reached Done:
\* the list changes only when a candidate reaches Done, by that candidate's
\* record being put at its end, and one candidate reaches Done at a time.
C21_RecordsInDoneOrder ==
    [][/\ Cardinality(BecomeDone) <= 1
       /\ BecomeDone = {} => video_metas' = video_metas
       /\ \A i \in BecomeDone :
             /\ Len(video_metas') = Len(video_metas) + 1
             /\ SubSeq(video_metas', 1, Len(video_metas)) = video_metas
             /\ video_metas'[Len(video_metas')].task = i]_vars

\* C21 witness: the call returned two records, the first of the candidate
\* submitted later.
C21_Witness ==
    /\ Returned
    /\ Len(video_metas) = 2
    /\ video_metas[1].task > video_metas[2].task

\* the candidates inside process_video
Processing == {i \in TaskIds : StageOf(tasks[i]) \in {"Clipping", "Embedding"}}

\* C22: at most one candidate is in Clipping or Embedding, and it is the one
\* the coordinator thread is working on.
C22_OneCandidateProcessed ==
    /\ Cardinality(Processing) <= 1
    /\ \A i \in Processing : pc \in {"clip", "embed"} /\ cur = i

\* C22 witness: two downloads are in progress while a third candidate is
\* being clipped or embedded.
C22_Witness ==
    /\ Cardinality(Running) >= 2
    /\ Processing # {}

\* C23: from the step in which the coordinator loop observes a candidate's
\* failure on, no record is appended, and the loop is not resumed.
C23_NoRecordAfterFailure ==
    [][(exc # "none" \/ exc' # "none")
          => /\ video_metas' = video_metas
             /\ pc' \in {"exit", "returned", "raised"}]_vars

\* C23 witness: the call returned one record after a failure, and a candidate
\* whose download had ended well was never taken.
C23_Witness ==
    /\ Returned
    /\ exc # "none"
    /\ Len(video_metas) = 1
    /\ \E i \in Downloaded : ~tasks[i].seen

====
